---------------------------- MODULE Spec2Model ----------------------------
(***************************************************************************)
(* A model of harper's spell-checking linter (harper-core, SpellCheck) and *)
(* of the language-server backend that drives it (harper-ls, Backend).     *)
(*                                                                         *)
(* Characters are one-character strings, character sequences are TLA+      *)
(* sequences of them.  Spans are half-open [start, end) over 0-based       *)
(* character indices, as in the Rust code.                                 *)
(***************************************************************************)
EXTENDS Integers, Sequences, FiniteSets, TLC

VARIABLES
    dictionary,   \* SpellCheck.dictionary: the words, in iteration order
    word_cache,   \* SpellCheck.word_cache: CharString -> Vec<CharString>
    document,     \* the Document handed to lint(): content and tokens
    lints,        \* the Vec<Lint> returned by the most recent lint() call
    calls,        \* the suggest_correct_spelling calls made by that lint()
    reads,        \* the adjusted unlintable spans that lint() read
    panicked,     \* whether that lint() panicked on a slice out of range
    pre_cache,    \* word_cache as it was when that lint() was entered
    runs,         \* consecutive lint() calls on the present document (0..2)
    files,            \* Backend.files: Url -> Document
    ident_dicts,      \* Backend.ident_dicts: Url -> Arc<FullDictionary>
    files_lock,       \* the handler that holds the files mutex, or 0
    ident_dicts_lock, \* the handler that holds the ident_dicts mutex, or 0
    handlers,         \* the running LanguageServer handlers and where they are
    published         \* the PublishDiagnostics notifications sent, in order

linter_vars == <<dictionary, word_cache, document, lints, calls, reads,
                 panicked, pre_cache, runs>>

backend_vars == <<files, ident_dicts, files_lock, ident_dicts_lock, handlers,
                  published>>

vars == <<linter_vars, backend_vars>>

----------------------------------------------------------------------------
(* Bounds of the model.                                                    *)

\* The longest token sequence of a document.
MaxTokens == 4

\* The number of requests the server handles, concurrently or in a row.
MaxHandlers == 2

\* The most content changes in one didChange notification.
MaxChanges == 2

\* The largest number of words in a dictionary.
MaxDictSize == 2

\* The longest token sequence of a document linted with a large dictionary.
MaxLargeTokens == 5

----------------------------------------------------------------------------
(* Characters.                                                             *)

\* Option::None, for the optional tokens and results of the code.
None == [none |-> TRUE]

\* char::is_uppercase, on the characters of the model.
IsUppercase(c) == c \in {"A", "B"}

\* c.to_uppercase().next().unwrap(): the first scalar of c's uppercase
\* mapping; a character without an uppercase form maps to itself.
ToUppercaseFirst(c) ==
    CASE c = "a" -> "A"
      [] c = "b" -> "B"
      [] OTHER   -> c

----------------------------------------------------------------------------
(* Spans, tokens and documents.                                            *)

Span(s, e) == [start |-> s, end |-> e]

\* Span::push_by(by): the adjustment of the unlintable span; it extends the
\* span by `by` scalars to the right.
PushBy(span, by) == Span(span.start, span.end + by)

\* Whether reading the span's content stays inside the content: a slice
\* content[start..end] outside it panics.
SpanInBounds(doc, span) ==
    /\ 0 <= span.start
    /\ span.start <= span.end
    /\ span.end <= Len(doc.content)

\* Document::get_span_content(span) = &content[span.start..span.end]
GetSpanContent(doc, span) == SubSeq(doc.content, span.start + 1, span.end)

\* The token kinds the linter distinguishes.
TokenKinds == {"Word", "OpenSquare", "CloseSquare", "Unlintable"}

IsWord(kind)        == kind = "Word"
IsOpenSquare(kind)  == kind = "OpenSquare"
IsCloseSquare(kind) == kind = "CloseSquare"
IsUnlintable(kind)  == kind = "Unlintable"

\* What a parser can emit as one token: a kind and the text it covers.
Pieces ==
    { [kind |-> "Word",        text |-> <<"b">>],
      [kind |-> "Word",        text |-> <<"B">>],
      [kind |-> "OpenSquare",  text |-> <<"[">>],
      [kind |-> "CloseSquare", text |-> <<"]">>],
      [kind |-> "Unlintable",  text |-> <<"a">>] }

EmptyDocument == [content |-> <<>>, tokens |-> <<>>]

\* The document with one more token parsed: the token's span starts where
\* the previous token ended (tokens are gap-free and in source order).
WithToken(doc, piece) ==
    [content |-> doc.content \o piece.text,
     tokens  |-> Append(doc.tokens,
                    [kind |-> piece.kind,
                     span |-> Span(Len(doc.content),
                                   Len(doc.content) + Len(piece.text))])]

\* Document::get_token(idx), idx counted from 0.
GetToken(doc, idx) ==
    IF idx < Len(doc.tokens) THEN doc.tokens[idx + 1] ELSE None

----------------------------------------------------------------------------
(* Dictionaries and the suggestion engine.                                 *)

\* The words a dictionary of the model can hold, in iteration order.
DictWords ==
    << <<"1", "b">>,
       <<"b">>,
       <<"a", "]", "b">>,
       <<"[", "a", "]", "b">>,
       <<"1", "1", "1", "1", "1", "1">> >>

\* Dictionaries: the subsequences of DictWords of at most MaxDictSize words.
Dictionaries ==
    { SelectSeq(DictWords, LAMBDA w : w \in ws) :
        ws \in { s \in SUBSET { DictWords[i] : i \in DOMAIN DictWords } :
                    Cardinality(s) <= MaxDictSize } }

\* Dictionary::contains_word: case-sensitive membership.
ContainsWord(dict, word) == \E i \in DOMAIN dict : dict[i] = word

Min2(a, b) == IF a <= b THEN a ELSE b

\* Levenshtein distance: insertions, deletions, substitutions of unit cost.
RECURSIVE EditDistance(_, _)
EditDistance(a, b) ==
    IF a = <<>> THEN Len(b)
    ELSE IF b = <<>> THEN Len(a)
    ELSE IF Head(a) = Head(b) THEN EditDistance(Tail(a), Tail(b))
    ELSE 1 + Min2(EditDistance(Tail(a), Tail(b)),
                  Min2(EditDistance(Tail(a), b), EditDistance(a, Tail(b))))

\* The first n entries of a sequence (Vec::truncate(n)).
Truncate(seq, n) == SubSeq(seq, 1, Min2(n, Len(seq)))

RECURSIVE ByDistance(_, _, _, _)
ByDistance(word, dict, d, max_distance) ==
    IF d > max_distance THEN <<>>
    ELSE SelectSeq(dict, LAMBDA w : EditDistance(word, w) = d)
            \o ByDistance(word, dict, d + 1, max_distance)

\* suggest_correct_spelling(word, max_results, max_distance, dictionary):
\* up to max_results dictionary words within max_distance of the word, by
\* ascending distance, ties in dictionary order; nothing for an empty word.
SuggestCorrectSpelling(word, max_results, max_distance, dict) ==
    IF word = <<>> THEN <<>>
    ELSE Truncate(ByDistance(word, dict, 0, max_distance), max_results)

----------------------------------------------------------------------------
(* SpellCheck: the memoized suggestion back-off.                           *)

\* max_results of every suggest_correct_spelling call.
MaxResults == 100

\* `let mut dist = 2`: the first max_distance tried.
FirstDist == 2

\* `dist < 5`: the back-off stops before this max_distance.
DistLimit == 5

\* `possibilities.truncate(3)`
MaxSuggestions == 3

\* `priority: 63`
SpellingPriority == 63

\* A back-off whose loop test is `dist <= 5`.
RECURSIVE BackOffInclusive(_, _, _, _, _)
BackOffInclusive(word, dict, suggestions, dist, log) ==
    IF suggestions = <<>> /\ dist <= DistLimit
    THEN LET found == SuggestCorrectSpelling(word, MaxResults, dist, dict)
         IN  BackOffInclusive(word, dict, found, dist + 1,
                     Append(log, [word         |-> word,
                                  max_results  |-> MaxResults,
                                  max_distance |-> dist,
                                  result       |-> found]))
    ELSE [suggestions |-> suggestions, calls |-> log]

\* The `while suggestions.is_empty() && dist < 5` loop.  `log` collects the
\* calls made to the suggestion engine, each with what it returned.
RECURSIVE BackOff(_, _, _, _, _)
BackOff(word, dict, suggestions, dist, log) ==
    IF suggestions = <<>> /\ dist < DistLimit
    THEN LET found == SuggestCorrectSpelling(word, MaxResults, dist, dict)
         IN  BackOff(word, dict, found, dist + 1,
                     Append(log, [word         |-> word,
                                  max_results  |-> MaxResults,
                                  max_distance |-> dist,
                                  result       |-> found]))
    ELSE [suggestions |-> suggestions, calls |-> log]

\* A memoization that fills the entry after the first call of the back-off
\* and hands the caller the final list.
CachedSuggestEarlyInsert(cache, dict, word, log) ==
    IF word \in DOMAIN cache
    THEN [cache |-> cache, calls |-> log, result |-> cache[word]]
    ELSE LET r == BackOff(word, dict, <<>>, FirstDist, log)
         IN  [cache  |-> (word :> SuggestCorrectSpelling(word, MaxResults,
                                        FirstDist, dict)) @@ cache,
              calls  |-> r.calls,
              result |-> r.suggestions]

\* A memoization that does not keep an empty list.
CachedSuggestSkipEmpty(cache, dict, word, log) ==
    IF word \in DOMAIN cache
    THEN [cache |-> cache, calls |-> log, result |-> cache[word]]
    ELSE LET r == BackOff(word, dict, <<>>, FirstDist, log)
         IN  [cache  |-> IF r.suggestions = <<>> THEN cache
                         ELSE (word :> r.suggestions) @@ cache,
              calls  |-> r.calls,
              result |-> r.suggestions]

\* SpellCheck::cached_suggest_correct_spelling: the cache entry of the word,
\* computed and stored on a miss; the caller gets a clone of the entry.
CachedSuggestCorrectSpelling(cache, dict, word, log) ==
    IF word \in DOMAIN cache
    THEN [cache |-> cache, calls |-> log, result |-> cache[word]]
    ELSE LET r == BackOff(word, dict, <<>>, FirstDist, log)
         IN  [cache  |-> (word :> r.suggestions) @@ cache,
              calls  |-> r.calls,
              result |-> ((word :> r.suggestions) @@ cache)[word]]

----------------------------------------------------------------------------
(* SpellCheck: markup re-composition.                                      *)

\* A fused span that starts at the unlintable token.
FusedSpanFromUnlintable(punct_1, unlintable, punct_2, missing_token) ==
    Span(unlintable.span.start, missing_token.span.end)

\* A fused span that ends one scalar after the word.
FusedSpanPastWord(punct_1, unlintable, punct_2, missing_token) ==
    Span(punct_1.span.start, missing_token.span.end + 1)

\* A fused span that starts where the document starts.
FusedSpanFromDocumentStart(punct_1, unlintable, punct_2, missing_token) ==
    Span(0, missing_token.span.end)

\* The span of the fused token: from the start of the opening bracket to the
\* end of the word.
FusedSpan(punct_1, unlintable, punct_2, missing_token) ==
    Span(punct_1.span.start, missing_token.span.end)

\* A re-composition that looks two tokens back and asks for no open
\* bracket.
CombineTwoTokensBack(doc, idx) ==
    IF GetToken(doc, idx) = None THEN None
    ELSE IF idx < 2 THEN None
    ELSE LET missing_token == GetToken(doc, idx)
             unlintable    == GetToken(doc, idx - 2)
             punct_2       == GetToken(doc, idx - 1)
         IN  IF ~IsCloseSquare(punct_2.kind) THEN None
             ELSE IF ~IsUnlintable(unlintable.kind) THEN None
             ELSE [token |-> [missing_token EXCEPT
                                 !.span = Span(unlintable.span.start,
                                               missing_token.span.end)],
                   unlintable_span |-> unlintable.span]

\* potentially_combine_unlintable_markdown_tokens(document, idx): None, or
\* the fused token and the span of the unlintable token.
PotentiallyCombineUnlintableMarkdownTokens(doc, idx) ==
    IF GetToken(doc, idx) = None THEN None
    \* get(idx.saturating_sub(3)..idx) has three tokens only when idx >= 3
    ELSE IF idx < 3 THEN None
    ELSE LET missing_token == GetToken(doc, idx)
             punct_1       == GetToken(doc, idx - 3)
             unlintable    == GetToken(doc, idx - 2)
             punct_2       == GetToken(doc, idx - 1)
         IN  IF ~(IsOpenSquare(punct_1.kind) /\ IsCloseSquare(punct_2.kind))
             THEN None
             ELSE IF ~IsUnlintable(unlintable.kind) THEN None
             ELSE [token |-> [missing_token EXCEPT
                                 !.span = FusedSpan(punct_1, unlintable,
                                                    punct_2, missing_token)],
                   unlintable_span |-> unlintable.span]

\* `unlintable_span.push_by(1)`
AdjustedUnlintableSpan(unlintable_span) == PushBy(unlintable_span, 1)

\* `[extra_content, suffix_content].concat()`: the probe word.
CheckWord(doc, unlintable_span, word_span) ==
    GetSpanContent(doc, unlintable_span) \o GetSpanContent(doc, word_span)

----------------------------------------------------------------------------
(* SpellCheck: shaping and the lint loop.                                  *)

\* The first character of a suggestion upper-cased (an empty suggestion has
\* no first character and is left alone).
CapitalizeFirst(sug) ==
    IF sug = <<>> THEN sug
    ELSE <<ToUppercaseFirst(Head(sug))>> \o Tail(sug)

\* A shaping that capitalizes whatever the misspelled word looks like.
CapitalizeAlways(word_chars, possibilities) ==
    [k \in DOMAIN possibilities |-> CapitalizeFirst(possibilities[k])]

\* A shaping with the test of the word's first character inverted.
CapitalizeInverted(word_chars, possibilities) ==
    IF word_chars # <<>> /\ ~IsUppercase(Head(word_chars))
    THEN [k \in DOMAIN possibilities |-> CapitalizeFirst(possibilities[k])]
    ELSE possibilities

\* "If the misspelled word is capitalized, capitalize the results too."
Capitalize(word_chars, possibilities) ==
    IF word_chars # <<>> /\ IsUppercase(Head(word_chars))
    THEN [k \in DOMAIN possibilities |-> CapitalizeFirst(possibilities[k])]
    ELSE possibilities

\* The Lint pushed for a reported token.
MakeLint(doc, reported, possibilities) ==
    [span        |-> reported.span,
     lint_kind   |-> "Spelling",
     suggestions |-> [k \in DOMAIN possibilities |->
                         [ReplaceWith |-> possibilities[k]]],
     message     |-> GetSpanContent(doc, reported.span),
     priority    |-> SpellingPriority]

\* The token lint() reports when re-composition did not rescue the word:
\* the fused token when there is one, else the word itself.
ReportedToken(word, combined) ==
    IF combined = None THEN word ELSE combined.token

\* A shaping that pushes no Lint for a word without suggestions.
FlagSkipsBare(st, doc, dict, word_chars, reported) ==
    LET c == CachedSuggestCorrectSpelling(st.cache, dict, word_chars, st.calls)
        possibilities == Capitalize(word_chars,
                                    Truncate(c.result, MaxSuggestions))
    IN  IF possibilities = <<>>
        THEN [st EXCEPT !.cache = c.cache, !.calls = c.calls]
        ELSE [st EXCEPT !.cache = c.cache,
                        !.calls = c.calls,
                        !.lints = Append(st.lints,
                                     MakeLint(doc, reported, possibilities))]

\* A shaping that works on the cache entry itself: the entry is left
\* truncated and capitalized.
FlagShapesEntry(st, doc, dict, word_chars, reported) ==
    LET c == CachedSuggestCorrectSpelling(st.cache, dict, word_chars, st.calls)
        possibilities == Capitalize(word_chars,
                                    Truncate(c.result, MaxSuggestions))
    IN  [st EXCEPT !.cache = (word_chars :> possibilities) @@ c.cache,
                   !.calls = c.calls,
                   !.lints = Append(st.lints,
                                MakeLint(doc, reported, possibilities))]

\* Steps 3 to 5 for one word: suggestions from the cache, at most three,
\* capitalized like the word, pushed as a Lint.  The message reads the
\* content of the reported span, which panics outside the content.
Flag(st, doc, dict, word_chars, reported) ==
    LET c == CachedSuggestCorrectSpelling(st.cache, dict, word_chars, st.calls)
        possibilities == Capitalize(word_chars,
                                    Truncate(c.result, MaxSuggestions))
    IN  IF ~SpanInBounds(doc, reported.span)
        THEN [st EXCEPT !.cache = c.cache,
                        !.calls = c.calls,
                        !.panicked = TRUE]
        ELSE [st EXCEPT !.cache = c.cache,
                        !.calls = c.calls,
                        !.lints = Append(st.lints,
                                     MakeLint(doc, reported, possibilities))]

\* One iteration of the loop of lint(), for the token at idx.
LintToken(st, doc, dict, idx) ==
    LET word       == GetToken(doc, idx)
        word_chars == GetSpanContent(doc, word.span)
        combined   == PotentiallyCombineUnlintableMarkdownTokens(doc, idx)
    IN  IF ~IsWord(word.kind) THEN st
        ELSE IF ContainsWord(dict, word_chars) THEN st
        ELSE IF combined = None
             THEN Flag(st, doc, dict, word_chars, ReportedToken(word, combined))
        ELSE LET unlintable_span ==
                     AdjustedUnlintableSpan(combined.unlintable_span)
             IN  IF ~SpanInBounds(doc, unlintable_span)
                 THEN [st EXCEPT !.reads = @ \cup {unlintable_span},
                                 !.panicked = TRUE]
                 ELSE LET read == [st EXCEPT !.reads = @ \cup {unlintable_span}]
                      IN  IF ContainsWord(dict,
                                 CheckWord(doc, unlintable_span, word.span))
                          THEN read
                          ELSE Flag(read, doc, dict, word_chars,
                                    ReportedToken(word, combined))

RECURSIVE LintLoop(_, _, _, _)
LintLoop(st, doc, dict, idx) ==
    IF idx >= Len(doc.tokens) \/ st.panicked THEN st
    ELSE LintLoop(LintToken(st, doc, dict, idx), doc, dict, idx + 1)

\* SpellCheck::lint(document) on a linter with the given cache.
LintDocument(cache, doc, dict) ==
    LintLoop([cache |-> cache, lints |-> <<>>, calls |-> <<>>,
              reads |-> {}, panicked |-> FALSE],
             doc, dict, 0)

----------------------------------------------------------------------------
(* The linter and its caller.                                              *)

EmptyCache == <<>>

\* SpellCheck::new(dictionary): an empty cache; no document linted yet.
LinterInit ==
    /\ dictionary \in Dictionaries
    /\ word_cache = EmptyCache
    /\ document = EmptyDocument
    /\ lints = <<>>
    /\ calls = <<>>
    /\ reads = {}
    /\ panicked = FALSE
    /\ pre_cache = EmptyCache
    /\ runs = 0

\* The result of the last lint() is dropped when the caller turns to
\* another document; the linter keeps its cache.
DropResult ==
    /\ lints' = <<>>
    /\ calls' = <<>>
    /\ reads' = {}
    /\ pre_cache' = word_cache
    /\ runs' = 0

\* The parser emits one more token of the document being prepared.
ParseToken(piece) ==
    /\ ~panicked
    /\ Len(document.tokens) < MaxTokens
    /\ document' = WithToken(document, piece)
    /\ DropResult
    /\ UNCHANGED <<dictionary, word_cache, panicked>>
    /\ UNCHANGED backend_vars

\* linter.lint(&document)
Lint ==
    /\ ~panicked
    /\ LET st == LintDocument(word_cache, document, dictionary)
       IN  /\ word_cache' = st.cache
           /\ lints' = st.lints
           /\ calls' = st.calls
           /\ reads' = st.reads
           /\ panicked' = st.panicked
    /\ pre_cache' = word_cache
    /\ runs' = IF runs < 2 THEN runs + 1 ELSE 2
    /\ UNCHANGED <<dictionary, document>>
    /\ UNCHANGED backend_vars

\* The words of a dictionary with many words close to "b" and "B", in
\* iteration order.
LargeDictWords ==
    << <<"1", "b">>, <<"1", "1">>, <<"1">>, <<"a">>, <<"A">> >>

\* Large dictionaries: the first words of LargeDictWords, one at least.
LargeDictionaries ==
    { SubSeq(LargeDictWords, 1, n) : n \in 1 .. Len(LargeDictWords) }

\* SpellCheck::new(dictionary) with a large dictionary.
LargeInit ==
    /\ dictionary \in LargeDictionaries
    /\ word_cache = EmptyCache
    /\ document = EmptyDocument
    /\ lints = <<>>
    /\ calls = <<>>
    /\ reads = {}
    /\ panicked = FALSE
    /\ pre_cache = EmptyCache
    /\ runs = 0

\* The parser emits one more token of a document that can hold a word, a
\* bracket group and a second word.
ParseTokenOfLargeDocument(piece) ==
    /\ ~panicked
    /\ Len(document.tokens) < MaxLargeTokens
    /\ document' = WithToken(document, piece)
    /\ DropResult
    /\ UNCHANGED <<dictionary, word_cache, panicked>>
    /\ UNCHANGED backend_vars

----------------------------------------------------------------------------
(* Backend: the language server's state and handlers.                      *)

Urls == {"main.rs", "notes.md"}

\* TreeSitterParser::new_from_extension: source files get a Tree-sitter
\* parser, everything else is parsed as Markdown.
HasTreeSitterParser(url) == url = "main.rs"

\* The texts a client sends or a file holds, as the parser tokenizes them:
\* the empty text, the word "b" and the word "B".
Texts ==
    { EmptyDocument,
      WithToken(EmptyDocument, [kind |-> "Word", text |-> <<"b">>]),
      WithToken(EmptyDocument, [kind |-> "Word", text |-> <<"B">>]) }

\* What tokio::fs::read_to_string can return besides a text.
IoError == [io_error |-> TRUE]

\* The ranges a codeAction request asks about, as range_to_span maps them.
Ranges == { Span(0, 1), Span(1, 1) }

\* Span::overlaps_with
OverlapsWith(a, b) == a.start < b.end /\ b.start < a.end

\* FullDictionary::create_from_curated(): the curated words of the model.
GlobalDictionary == << <<"b">> >>

\* Document::new(text, parser)
NewDocument(text) == text

RECURSIVE WordsOf(_, _)
WordsOf(doc, idx) ==
    IF idx >= Len(doc.tokens) THEN <<>>
    ELSE LET token == GetToken(doc, idx)
             rest  == WordsOf(doc, idx + 1)
         IN  IF IsWord(token.kind)
             THEN <<GetSpanContent(doc, token.span)>> \o rest
             ELSE rest

\* TreeSitterParser::create_ident_dict(content): the identifiers of the
\* source as a dictionary, None when it finds none.
CreateIdentDict(doc) ==
    IF WordsOf(doc, 0) = <<>> THEN None ELSE [dict |-> WordsOf(doc, 0)]

\* MergedDictionary: the global dictionary, then the identifiers of the url
\* when ident_dicts has them.
MergedDictionary(idents, url) ==
    GlobalDictionary \o (IF idents[url] = None THEN <<>> ELSE idents[url].dict)

\* A lint pass on a linter kept from a pass under the global dictionary
\* alone, its cache filled for the word "B".
LintPassKeptLinter(doc, dict) ==
    LintDocument((<<"B">> :> << <<"b">> >>), doc, dict).lints

\* linter.lint(document) on a linter that create_linter has just made.
LintPass(doc, dict) == LintDocument(EmptyCache, doc, dict).lints

\* A handler slot before its request arrives.
IdleHandler ==
    [pc |-> "idle", kind |-> "none", url |-> "none", changes |-> <<>>,
     range |-> None, doc |-> None, new_dict |-> None, diagnostics |-> None]

\* Backend::new: empty maps, free mutexes, nothing sent.
BackendInit ==
    /\ files = [url \in Urls |-> None]
    /\ ident_dicts = [url \in Urls |-> None]
    /\ files_lock = 0
    /\ ident_dicts_lock = 0
    /\ handlers = [h \in 1 .. MaxHandlers |-> IdleHandler]
    /\ published = <<>>

\* Requests are handed to the handler slots in order.
CanStart(h) ==
    /\ handlers[h].pc = "idle"
    /\ \A g \in 1 .. MaxHandlers : g < h => handlers[g].pc # "idle"

\* The start of update_document(url, text): the Document and, for a source
\* file, its identifier dictionary; what follows is the first lock it needs.
UpdateDocumentFrom(handler, url, text) ==
    LET doc      == NewDocument(text)
        new_dict == IF HasTreeSitterParser(url)
                    THEN CreateIdentDict(doc) ELSE None
    IN  [handler EXCEPT !.doc = doc,
                        !.new_dict = new_dict,
                        !.pc = IF new_dict # None
                               THEN "update_lock_ident_dicts"
                               ELSE "update_lock_files"]

\* A did_change that applies the first content change.
FirstChange(changes) == changes[1]

\* The content change did_change applies.
LastChange(changes) == changes[Len(changes)]

\* did_change(params): nothing without a content change, else
\* update_document with the last change, then publish_diagnostics.
DidChange(h, url, changes) ==
    /\ CanStart(h)
    /\ handlers' = [handlers EXCEPT ![h] =
          IF changes = <<>>
          THEN [IdleHandler EXCEPT !.pc = "done", !.kind = "did_change",
                                   !.url = url, !.changes = changes]
          ELSE UpdateDocumentFrom(
                  [IdleHandler EXCEPT !.kind = "did_change", !.url = url,
                                      !.changes = changes],
                  url, LastChange(changes))]
    /\ UNCHANGED <<files, ident_dicts, files_lock, ident_dicts_lock, published>>
    /\ UNCHANGED linter_vars

\* did_open(params) and did_save(params): up to the read of the file.
DidOpenOrSave(h, kind, url) ==
    /\ CanStart(h)
    /\ handlers' = [handlers EXCEPT ![h] =
          [IdleHandler EXCEPT !.pc = "read_file", !.kind = kind, !.url = url]]
    /\ UNCHANGED <<files, ident_dicts, files_lock, ident_dicts_lock, published>>
    /\ UNCHANGED linter_vars

\* update_document_from_file: a failed read returns without an update; the
\* handler goes on to publish_diagnostics either way.
ReadFile(h, content) ==
    /\ handlers[h].pc = "read_file"
    /\ handlers' = [handlers EXCEPT ![h] =
          IF content = IoError
          THEN [handlers[h] EXCEPT !.pc = "lint_lock_files"]
          ELSE UpdateDocumentFrom(handlers[h], handlers[h].url, content)]
    /\ UNCHANGED <<files, ident_dicts, files_lock, ident_dicts_lock, published>>
    /\ UNCHANGED linter_vars

\* update_document: `self.ident_dicts.lock().await`
UpdateLockIdentDicts(h) ==
    /\ handlers[h].pc = "update_lock_ident_dicts"
    /\ ident_dicts_lock = 0
    /\ ident_dicts_lock' = h
    /\ handlers' = [handlers EXCEPT ![h].pc = "update_insert_ident_dict"]
    /\ UNCHANGED <<files, ident_dicts, files_lock, published>>
    /\ UNCHANGED linter_vars

\* An update_document that keeps the ident_dicts guard while it goes on to
\* the files mutex.
UpdateInsertKeepsGuard(h) ==
    /\ handlers[h].pc = "update_insert_ident_dict"
    /\ ident_dicts' = [ident_dicts EXCEPT ![handlers[h].url] =
                          handlers[h].new_dict]
    /\ handlers' = [handlers EXCEPT ![h].pc = "update_lock_files"]
    /\ UNCHANGED <<files, files_lock, ident_dicts_lock, published>>
    /\ UNCHANGED linter_vars

\* update_document: `ident_dicts.insert(url, new_dict)`, the guard dropped.
UpdateInsertIdentDict(h) ==
    /\ handlers[h].pc = "update_insert_ident_dict"
    /\ ident_dicts' = [ident_dicts EXCEPT ![handlers[h].url] =
                          handlers[h].new_dict]
    /\ ident_dicts_lock' = 0
    /\ handlers' = [handlers EXCEPT ![h].pc = "update_lock_files"]
    /\ UNCHANGED <<files, files_lock, published>>
    /\ UNCHANGED linter_vars

\* An update_document that does not wait for the files mutex.
UpdateTakesFiles(h) ==
    /\ handlers[h].pc = "update_lock_files"
    /\ files_lock' = h
    /\ handlers' = [handlers EXCEPT ![h].pc = "update_insert_file"]
    /\ UNCHANGED <<files, ident_dicts, ident_dicts_lock, published>>
    /\ UNCHANGED linter_vars

\* update_document: `self.files.lock().await`
UpdateLockFiles(h) ==
    /\ handlers[h].pc = "update_lock_files"
    /\ files_lock = 0
    /\ files_lock' = h
    /\ handlers' = [handlers EXCEPT ![h].pc = "update_insert_file"]
    /\ UNCHANGED <<files, ident_dicts, ident_dicts_lock, published>>
    /\ UNCHANGED linter_vars

\* update_document: `files.insert(url, doc)`, the guard dropped; the handler
\* goes on to publish_diagnostics.
UpdateInsertFile(h) ==
    /\ handlers[h].pc = "update_insert_file"
    /\ files' = [files EXCEPT ![handlers[h].url] = handlers[h].doc]
    /\ files_lock' = 0
    /\ handlers' = [handlers EXCEPT ![h].pc = "lint_lock_files"]
    /\ UNCHANGED <<ident_dicts, ident_dicts_lock, published>>
    /\ UNCHANGED linter_vars

\* code_action(params): generate_code_actions for the url and range.
CodeAction(h, url, range) ==
    /\ CanStart(h)
    /\ handlers' = [handlers EXCEPT ![h] =
          [IdleHandler EXCEPT !.pc = "lint_lock_files", !.kind = "code_action",
                              !.url = url, !.range = range]]
    /\ UNCHANGED <<files, ident_dicts, files_lock, ident_dicts_lock, published>>
    /\ UNCHANGED linter_vars

\* Where a handler goes with the result of its lint pass: to the send of
\* the notification, or to the response of the request.
AfterLint(kind) == IF kind = "code_action" THEN "done" ELSE "send"

\* What generate_diagnostics or generate_code_actions returns for a url
\* without a Document.
NoDiagnostics == [of |-> None, with |-> GlobalDictionary, lints |-> <<>>]

\* generate_diagnostics, generate_code_actions: `self.files.lock().await`
\* and `files.get(url)`; without a Document the guard is dropped at once.
LintLockFiles(h) ==
    /\ handlers[h].pc = "lint_lock_files"
    /\ files_lock = 0
    /\ IF files[handlers[h].url] = None
       THEN /\ files_lock' = 0
            /\ handlers' = [handlers EXCEPT
                   ![h].diagnostics = NoDiagnostics,
                   ![h].pc = AfterLint(handlers[h].kind)]
       ELSE /\ files_lock' = h
            /\ handlers' = [handlers EXCEPT ![h].pc = "linter_lock_ident_dicts"]
    /\ UNCHANGED <<files, ident_dicts, ident_dicts_lock, published>>
    /\ UNCHANGED linter_vars

\* create_linter: `self.ident_dicts.lock().await`, the files guard held.
LinterLockIdentDicts(h) ==
    /\ handlers[h].pc = "linter_lock_ident_dicts"
    /\ ident_dicts_lock = 0
    /\ ident_dicts_lock' = h
    /\ handlers' = [handlers EXCEPT ![h].pc = "lint"]
    /\ UNCHANGED <<files, ident_dicts, files_lock, published>>
    /\ UNCHANGED linter_vars

\* The Lints a handler keeps: all of them as diagnostics, those that overlap
\* the range as code actions.
KeptLints(handler, found) ==
    IF handler.kind = "code_action"
    THEN SelectSeq(found, LAMBDA l : OverlapsWith(l.span, handler.range))
    ELSE found

\* create_linter takes the identifiers of the url and drops the ident_dicts
\* guard; the linter lints the Document; the files guard is dropped when
\* generate_diagnostics or generate_code_actions returns.
LintStored(h) ==
    /\ handlers[h].pc = "lint"
    /\ LET url  == handlers[h].url
           dict == MergedDictionary(ident_dicts, url)
       IN  handlers' = [handlers EXCEPT
               ![h].diagnostics =
                   [of    |-> files[url],
                    with  |-> dict,
                    lints |-> KeptLints(handlers[h], LintPass(files[url], dict))],
               ![h].pc = AfterLint(handlers[h].kind)]
    /\ ident_dicts_lock' = 0
    /\ files_lock' = 0
    /\ UNCHANGED <<files, ident_dicts, published>>
    /\ UNCHANGED linter_vars

\* publish_diagnostics: send_notification::<PublishDiagnostics>, version
\* None.
SendDiagnostics(h) ==
    /\ handlers[h].pc = "send"
    /\ published' = Append(published,
                       [uri         |-> handlers[h].url,
                        diagnostics |-> handlers[h].diagnostics,
                        version     |-> None])
    /\ handlers' = [handlers EXCEPT ![h].pc = "done"]
    /\ UNCHANGED <<files, ident_dicts, files_lock, ident_dicts_lock>>
    /\ UNCHANGED linter_vars

\* The content changes a didChange notification can carry.
ChangeLists ==
    UNION { [1 .. n -> Texts] : n \in 0 .. MaxChanges }

----------------------------------------------------------------------------
(* The specifications.                                                     *)

\* The linter on its own; the backend does not move.
Init == LinterInit /\ BackendInit

Next ==
    \/ \E piece \in Pieces : ParseToken(piece)
    \/ Lint

Spec == Init /\ [][Next]_vars

\* The linter with a large dictionary, on longer documents.
InitLarge == LargeInit /\ BackendInit

NextLarge ==
    \/ \E piece \in Pieces : ParseTokenOfLargeDocument(piece)
    \/ Lint

SpecLarge == InitLarge /\ [][NextLarge]_vars

\* The backend; every lint pass makes its own linter.
InitLS ==
    /\ BackendInit
    /\ dictionary = GlobalDictionary
    /\ word_cache = EmptyCache
    /\ document = EmptyDocument
    /\ lints = <<>>
    /\ calls = <<>>
    /\ reads = {}
    /\ panicked = FALSE
    /\ pre_cache = EmptyCache
    /\ runs = 0

NextLS ==
    \/ \E h \in 1 .. MaxHandlers, url \in Urls, changes \in ChangeLists :
          DidChange(h, url, changes)
    \/ \E h \in 1 .. MaxHandlers, url \in Urls :
          DidOpenOrSave(h, "did_open", url)
    \/ \E h \in 1 .. MaxHandlers, url \in Urls :
          DidOpenOrSave(h, "did_save", url)
    \/ \E h \in 1 .. MaxHandlers, content \in Texts \cup {IoError} :
          ReadFile(h, content)
    \/ \E h \in 1 .. MaxHandlers, url \in Urls, range \in Ranges :
          CodeAction(h, url, range)
    \/ \E h \in 1 .. MaxHandlers : UpdateLockIdentDicts(h)
    \/ \E h \in 1 .. MaxHandlers : UpdateInsertIdentDict(h)
    \/ \E h \in 1 .. MaxHandlers : UpdateLockFiles(h)
    \/ \E h \in 1 .. MaxHandlers : UpdateInsertFile(h)
    \/ \E h \in 1 .. MaxHandlers : LintLockFiles(h)
    \/ \E h \in 1 .. MaxHandlers : LinterLockIdentDicts(h)
    \/ \E h \in 1 .. MaxHandlers : LintStored(h)
    \/ \E h \in 1 .. MaxHandlers : SendDiagnostics(h)

SpecLS == InitLS /\ [][NextLS]_vars

\* The steps a handler takes once its request has arrived.
Proceed(h) ==
    \/ \E content \in Texts \cup {IoError} : ReadFile(h, content)
    \/ UpdateLockIdentDicts(h)
    \/ UpdateInsertIdentDict(h)
    \/ UpdateLockFiles(h)
    \/ UpdateInsertFile(h)
    \/ LintLockFiles(h)
    \/ LinterLockIdentDicts(h)
    \/ LintStored(h)
    \/ SendDiagnostics(h)

\* The backend on a runtime that keeps polling every task that can go on
\* and hands a free mutex to a task that waits for it.
SpecLSFair ==
    /\ InitLS
    /\ [][NextLS]_vars
    /\ \A h \in 1 .. MaxHandlers : WF_vars(Proceed(h))

----------------------------------------------------------------------------
(* Properties of the linter.                                               *)

\* Positions of tokens, counted from 1 as TLA+ sequences are.
Positions == DOMAIN document.tokens

ContentAt(span) == SubSeq(document.content, span.start + 1, span.end)

\* The Word tokens whose content the dictionary does not hold.
UnknownWordAt(p) ==
    /\ document.tokens[p].kind = "Word"
    /\ ~ContainsWord(dictionary, ContentAt(document.tokens[p].span))

\* The token at p follows an open bracket, an Unlintable and a close bracket.
BracketGroupBefore(p) ==
    /\ p > 3
    /\ document.tokens[p - 3].kind = "OpenSquare"
    /\ document.tokens[p - 2].kind = "Unlintable"
    /\ document.tokens[p - 1].kind = "CloseSquare"

\* The probe word of the token at p: the unlintable text and the scalar
\* after it, then the word.
ProbeWordAt(p) ==
    SubSeq(document.content, document.tokens[p - 2].span.start + 1,
           document.tokens[p - 2].span.end + 1)
        \o ContentAt(document.tokens[p].span)

RescuedAt(p) ==
    BracketGroupBefore(p) /\ ContainsWord(dictionary, ProbeWordAt(p))

\* The Lints of the last lint() that end where the token at p ends.
LintsFor(p) ==
    { i \in DOMAIN lints : lints[i].span.end = document.tokens[p].span.end }

\* The characters of the word a Lint was raised for: the token that ends
\* where the Lint's span ends.
WordOfLint(lint) ==
    LET p == CHOOSE q \in Positions :
                 document.tokens[q].span.end = lint.span.end
    IN  ContentAt(document.tokens[p].span)

IsFused(lint) ==
    \E q \in Positions :
        /\ document.tokens[q].span.end = lint.span.end
        /\ document.tokens[q].span.start > lint.span.start

\* C1: linting the same document again on the same SpellCheck, whatever
\* the cache held before the first of the two calls, returns the same Lints.
CachingIsTransparent ==
    [][(runs >= 1 /\ runs' >= 1) => lints' = lints]_vars

C1_Witness ==
    /\ runs = 2
    /\ pre_cache # EmptyCache
    /\ \E i \in DOMAIN lints : Len(lints[i].suggestions) >= 2

\* C2: no Lint has a span whose content is a word of the dictionary, the
\* fused spans of bracket groups included.
NoLintCoversDictionaryWord ==
    \A i \in DOMAIN lints :
        ~ContainsWord(dictionary, ContentAt(lints[i].span))

\* C3 as claimed: every ReplaceWith(s) of every Lint is a word of the
\* dictionary, also for capitalized words and fused spans.
EverySuggestionIsDictionaryWord ==
    \A i \in DOMAIN lints :
        \A k \in DOMAIN lints[i].suggestions :
            ContainsWord(dictionary, lints[i].suggestions[k].ReplaceWith)

\* s is the word m with its first character upper-cased.
IsCapitalOf(s, m) ==
    /\ s # <<>>
    /\ m # <<>>
    /\ Head(s) = ToUppercaseFirst(Head(m))
    /\ Tail(s) = Tail(m)

\* C3 as amended: every ReplaceWith(s) is a word of the dictionary when the
\* misspelled word does not start with an uppercase character, and a word
\* of the dictionary with its first character upper-cased when it does.
SuggestionIsDictionaryWordUpToCapital ==
    \A i \in DOMAIN lints :
        \A k \in DOMAIN lints[i].suggestions :
            LET s == lints[i].suggestions[k].ReplaceWith
            IN  IF IsUppercase(Head(WordOfLint(lints[i])))
                THEN \E j \in DOMAIN dictionary : IsCapitalOf(s, dictionary[j])
                ELSE ContainsWord(dictionary, s)

C3_Witness ==
    \E i \in DOMAIN lints :
        /\ IsFused(lints[i])
        /\ IsUppercase(Head(WordOfLint(lints[i])))
        /\ \E k \in DOMAIN lints[i].suggestions :
              ~ContainsWord(dictionary, lints[i].suggestions[k].ReplaceWith)

\* C4 as claimed: when the misspelled word begins with an uppercase
\* character, every non-empty suggestion begins with one, for every
\* dictionary.
CapitalizedWordGetsUppercaseSuggestions ==
    \A i \in DOMAIN lints :
        IsUppercase(Head(WordOfLint(lints[i]))) =>
            \A k \in DOMAIN lints[i].suggestions :
                LET s == lints[i].suggestions[k].ReplaceWith
                IN  s # <<>> => IsUppercase(Head(s))

\* The characters with an uppercase form.
CasedLetters == {"a", "b", "A", "B"}

\* C4 as amended: when the misspelled word begins with an uppercase
\* character, every non-empty suggestion begins with the first scalar of the
\* uppercase mapping of the first character of the cached word it comes
\* from: an uppercase character when that word begins with a letter, the
\* word's own first character when it begins with a digit or punctuation.
CapitalizedWordGetsCapitalizedSuggestions ==
    \A i \in DOMAIN lints :
        LET w == WordOfLint(lints[i])
        IN  IsUppercase(Head(w)) =>
                /\ w \in DOMAIN word_cache
                /\ \A k \in DOMAIN lints[i].suggestions :
                      LET s == lints[i].suggestions[k].ReplaceWith
                          m == word_cache[w][k]
                      IN  s # <<>> =>
                            /\ Head(s) = ToUppercaseFirst(Head(m))
                            /\ Head(m) \in CasedLetters => IsUppercase(Head(s))
                            /\ Head(m) \notin CasedLetters => Head(s) = Head(m)

C4_Witness ==
    \E i \in DOMAIN lints :
        /\ IsUppercase(Head(WordOfLint(lints[i])))
        /\ \E k \in DOMAIN lints[i].suggestions :
              IsUppercase(Head(lints[i].suggestions[k].ReplaceWith))
        /\ \E k \in DOMAIN lints[i].suggestions :
              ~IsUppercase(Head(lints[i].suggestions[k].ReplaceWith))

\* The distinct contents of the Word tokens that are not in the dictionary.
UnknownWordForms ==
    { ContentAt(document.tokens[p].span) : p \in { q \in Positions : UnknownWordAt(q) } }

\* The distinct contents of the Word tokens that are not in the dictionary
\* and that re-composition does not rescue.
FlaggedWordForms ==
    { ContentAt(document.tokens[p].span) :
        p \in { q \in Positions : UnknownWordAt(q) /\ ~RescuedAt(q) } }

\* C6 as claimed: from an empty cache, lint() leaves one cache entry for
\* every distinct Word content that is not in the dictionary, preceded by a
\* bracket group or not; a second lint() calls the suggestion engine never.
CacheHoldsEveryUnknownWordForm ==
    /\ (runs = 1 /\ pre_cache = EmptyCache) =>
            Cardinality(DOMAIN word_cache) = Cardinality(UnknownWordForms)
    /\ runs = 2 => calls = <<>>

\* C6 as amended: from an empty cache, lint() leaves one cache entry for
\* every distinct Word content that is not in the dictionary and that
\* re-composition does not rescue at some occurrence; a second lint() of
\* the document calls the suggestion engine never.
CacheHoldsEveryFlaggedWordForm ==
    /\ (runs = 1 /\ pre_cache = EmptyCache) =>
            /\ DOMAIN word_cache = FlaggedWordForms
            /\ Cardinality(DOMAIN word_cache) = Cardinality(FlaggedWordForms)
    /\ runs = 2 => calls = <<>>

C6_Witness ==
    /\ runs = 2
    /\ calls = <<>>
    /\ pre_cache = word_cache
    /\ Cardinality(FlaggedWordForms) = 2

\* The calls of the last lint() that asked for the word w, in order.
BackOffCalls(w) == SelectSeq(calls, LAMBDA c : c.word = w)

\* C7: on a miss the suggestion engine is called at most 3 times, with
\* max_distance 2, 3, 4 in this order and max_results 100, no further once
\* a call returned something; on a hit it is not called; the last list,
\* empty or not, is what the cache holds.
BackOffIsBounded ==
    /\ \A i \in DOMAIN calls :
          LET w  == calls[i].word
              cw == BackOffCalls(w)
          IN  /\ w \notin DOMAIN pre_cache
              /\ Len(cw) <= 3
              /\ \A k \in DOMAIN cw :
                    /\ cw[k].max_distance = k + 1
                    /\ cw[k].max_results = 100
                    /\ k < Len(cw) => cw[k].result = <<>>
              /\ Len(cw) < 3 => cw[Len(cw)].result # <<>>
              /\ w \in DOMAIN word_cache
              /\ word_cache[w] = cw[Len(cw)].result
    /\ \A w \in DOMAIN word_cache :
          w \notin DOMAIN pre_cache => BackOffCalls(w) # <<>>

C7_Witness ==
    /\ \E i \in DOMAIN calls :
          /\ Len(BackOffCalls(calls[i].word)) = 3
          /\ word_cache[calls[i].word] # <<>>
    /\ \E i \in DOMAIN lints :
          /\ WordOfLint(lints[i]) \in DOMAIN pre_cache
          /\ BackOffCalls(WordOfLint(lints[i])) = <<>>

\* The document "[a]b": an open bracket, Unlintable "a", a close bracket
\* and the Word "b".
ScenarioDocument ==
    [content |-> <<"[", "a", "]", "b">>,
     tokens  |-> << [kind |-> "OpenSquare",  span |-> [start |-> 0, end |-> 1]],
                    [kind |-> "Unlintable",  span |-> [start |-> 1, end |-> 2]],
                    [kind |-> "CloseSquare", span |-> [start |-> 2, end |-> 3]],
                    [kind |-> "Word",        span |-> [start |-> 3, end |-> 4]] >>]

\* C8: Scenario C.  With the whole construct "[a]b" in the dictionary, and
\* the word "b" not in it, lint() of the scenario's document returns no
\* Lint.
ScenarioCRescued ==
    ( /\ runs >= 1
      /\ document = ScenarioDocument
      /\ ContainsWord(dictionary, <<"[", "a", "]", "b">>)
      /\ ~ContainsWord(dictionary, <<"b">>) )
        => lints = <<>>

\* C9: Scenario D.  A Word that is not in the dictionary, follows a bracket
\* group and has an unknown probe word gets exactly one Lint, from the
\* start of the open bracket to the end of the word; a Word that is not in
\* the dictionary and follows no bracket group gets exactly one Lint, on
\* its own span.
FusedSpanCoversGroup ==
    runs >= 1 =>
        \A p \in Positions :
            UnknownWordAt(p) =>
                IF BracketGroupBefore(p)
                THEN ~ContainsWord(dictionary, ProbeWordAt(p)) =>
                        /\ Cardinality(LintsFor(p)) = 1
                        /\ \A i \in LintsFor(p) :
                              lints[i].span =
                                [start |-> document.tokens[p - 3].span.start,
                                 end   |-> document.tokens[p].span.end]
                ELSE /\ Cardinality(LintsFor(p)) = 1
                     /\ \A i \in LintsFor(p) :
                           lints[i].span = document.tokens[p].span

C9_Witness ==
    /\ runs >= 1
    /\ \E p \in Positions :
          /\ UnknownWordAt(p)
          /\ BracketGroupBefore(p)
          /\ ~ContainsWord(dictionary, ProbeWordAt(p))
          /\ \E i \in LintsFor(p) :
                lints[i].span.start < document.tokens[p].span.start

InContent(span) ==
    /\ 0 <= span.start
    /\ span.start <= span.end
    /\ span.end <= Len(document.content)

\* C10: every Lint's span, fused or not, and every adjusted unlintable span
\* read during re-composition lies within the content of the document; no
\* read is out of range.
SpansStayInContent ==
    /\ ~panicked
    /\ \A i \in DOMAIN lints : InContent(lints[i].span)
    /\ \A span \in reads : InContent(span)

C10_Witness ==
    /\ \E i \in DOMAIN lints :
          IsFused(lints[i]) /\ lints[i].span.end = Len(document.content)
    /\ \E span \in reads : span.end = Len(document.content) - 1

\* The suggestion engine finds nothing for w at max_distance 2, 3 and 4.
NoCandidateFor(w) ==
    \A d \in FirstDist .. DistLimit - 1 :
        SuggestCorrectSpelling(w, MaxResults, d, dictionary) = <<>>

\* The Word tokens that lint() has to flag and finds no suggestion for.
BareWordAt(p) ==
    /\ UnknownWordAt(p)
    /\ ~RescuedAt(p)
    /\ NoCandidateFor(ContentAt(document.tokens[p].span))

\* C11: lint() does not fail, and a Word that is not in the dictionary, is
\* not rescued by re-composition and has no candidate at max_distance 2, 3
\* and 4 gets exactly one Lint, with no suggestion, kind Spelling and
\* priority 63.
LinterIsTotal ==
    runs >= 1 =>
        /\ ~panicked
        /\ \A p \in Positions :
              BareWordAt(p) =>
                  /\ Cardinality(LintsFor(p)) = 1
                  /\ \A i \in LintsFor(p) :
                        /\ lints[i].suggestions = <<>>
                        /\ lints[i].lint_kind = "Spelling"
                        /\ lints[i].priority = 63

C11_Witness ==
    /\ runs >= 1
    /\ dictionary # <<>>
    /\ \E p \in Positions :
          /\ BareWordAt(p)
          /\ \E i \in LintsFor(p) : lints[i].suggestions = <<>>
          /\ Len(BackOffCalls(ContentAt(document.tokens[p].span))) = 3

\* The token at p has its own Lint: one Lint, on the token's span.
HasOwnLint(p) ==
    /\ Cardinality(LintsFor(p)) = 1
    /\ \A i \in LintsFor(p) : lints[i].span = document.tokens[p].span

\* C17: a Word that is not in the dictionary and has fewer than three
\* tokens before it is neither rescued nor fused, and lint() does not fail
\* on it: it gets one Lint on its own span.  From the fourth token on, the
\* kinds of the three tokens before the word, and nothing else, decide
\* whether re-composition applies.
EarlyWordsKeepTheirSpan ==
    runs >= 1 =>
        /\ ~panicked
        /\ \A p \in Positions :
              UnknownWordAt(p) =>
                  IF p <= 3 THEN HasOwnLint(p)
                  ELSE IF ~( /\ document.tokens[p - 3].kind = "OpenSquare"
                             /\ document.tokens[p - 2].kind = "Unlintable"
                             /\ document.tokens[p - 1].kind = "CloseSquare" )
                       THEN HasOwnLint(p)
                  ELSE \A i \in LintsFor(p) :
                          lints[i].span.start = document.tokens[p - 3].span.start

C17_Witness ==
    /\ runs >= 1
    /\ Len(document.tokens) = 4
    /\ document.tokens[1].kind = "Unlintable"
    /\ document.tokens[2].kind = "CloseSquare"
    /\ UnknownWordAt(3)
    /\ ContainsWord(dictionary, <<"a", "]">> \o ContentAt(document.tokens[3].span))
    /\ HasOwnLint(3)
    /\ UnknownWordAt(4)
    /\ HasOwnLint(4)

----------------------------------------------------------------------------
(* Properties of the backend.                                              *)

Finished(h) == handlers[h].pc \in {"idle", "done"}

\* The notifications sent for a url, in the order they were sent.
PublishedFor(url) == SelectSeq(published, LAMBDA n : n.uri = url)

\* C5: a PublishDiagnostics notification is sent only with diagnostics
\* computed from the Document that files holds for the url at the moment
\* of sending; and once every handler has finished, the last diagnostics
\* published for a url are those of the Document stored for it.
PublishedDiagnosticsAreCurrent ==
    /\ [][\A h \in 1 .. MaxHandlers :
            ( /\ handlers[h].pc = "send"
              /\ handlers'[h].pc = "done"
              /\ handlers[h].diagnostics.of # None ) =>
                handlers[h].diagnostics.of = files[handlers[h].url]]_vars
    /\ [](\A url \in Urls :
            LET sent == PublishedFor(url)
            IN  ( /\ \A h \in 1 .. MaxHandlers : Finished(h)
                  /\ sent # <<>>
                  /\ sent[Len(sent)].diagnostics.of # None ) =>
                    sent[Len(sent)].diagnostics.of = files[url])

AllFinished == \A h \in 1 .. MaxHandlers : Finished(h)

\* The didChange handlers for a url that carry a content change.
AppliedChanges(url) ==
    { h \in 1 .. MaxHandlers :
        /\ handlers[h].kind = "did_change"
        /\ handlers[h].url = url
        /\ handlers[h].changes # <<>> }

\* The text of the last content change of a didChange handler.
LastTextOf(h) == handlers[h].changes[Len(handlers[h].changes)]

\* No did_open and no did_save was handled for the url.
OnlyChanged(url) ==
    \A h \in 1 .. MaxHandlers :
        handlers[h].url = url => handlers[h].kind \in {"did_change", "code_action"}

\* C12: a didChange without content change finishes at once and leaves
\* files, ident_dicts and published alone; a didChange with content changes
\* stores the parse of its last change for its url and nothing else; and
\* when every handler has finished, a url that saw didChange notifications
\* only holds the last change of one of them and has one notification
\* published for each that carried a change.
DidChangeAppliesLastChange ==
    /\ [][\A h \in 1 .. MaxHandlers :
            ( /\ handlers[h].pc = "idle"
              /\ handlers'[h].kind = "did_change"
              /\ handlers'[h].changes = <<>> ) =>
                /\ handlers'[h].pc = "done"
                /\ files' = files
                /\ ident_dicts' = ident_dicts
                /\ published' = published]_vars
    /\ [][\A h \in 1 .. MaxHandlers :
            ( /\ handlers[h].kind = "did_change"
              /\ handlers[h].pc = "update_insert_file"
              /\ handlers'[h].pc # "update_insert_file" ) =>
                files' = [files EXCEPT ![handlers[h].url] = LastTextOf(h)]]_vars
    /\ [](AllFinished =>
            \A url \in Urls :
                OnlyChanged(url) =>
                    /\ Len(PublishedFor(url)) = Cardinality(AppliedChanges(url))
                    /\ AppliedChanges(url) = {} => files[url] = None
                    /\ AppliedChanges(url) # {} =>
                          \E h \in AppliedChanges(url) :
                              files[url] = LastTextOf(h)
                    /\ Cardinality(AppliedChanges(url)) = 1 =>
                          PublishedFor(url)[1].diagnostics.of = files[url])

C12_Witness ==
    /\ AllFinished
    /\ \E h \in 1 .. MaxHandlers :
          /\ handlers[h].kind = "did_change"
          /\ handlers[h].pc = "done"
          /\ Len(handlers[h].changes) = 2
          /\ handlers[h].changes[1] # handlers[h].changes[2]
          /\ AppliedChanges(handlers[h].url) = {h}
          /\ OnlyChanged(handlers[h].url)
          /\ files[handlers[h].url] = handlers[h].changes[2]
          /\ Len(PublishedFor(handlers[h].url)) = 1
    /\ \E h \in 1 .. MaxHandlers :
          /\ handlers[h].kind = "did_change"
          /\ handlers[h].pc = "done"
          /\ handlers[h].changes = <<>>

\* The did_open and did_save handlers whose read of the file failed: past
\* the read without a Document.
ReadFailed(h) ==
    /\ handlers[h].kind \in {"did_open", "did_save"}
    /\ handlers[h].pc \notin {"idle", "read_file"}
    /\ handlers[h].doc = None

\* C13: a did_open or did_save whose read of the file fails leaves the
\* Document and the identifier dictionary of the url as they are, runs no
\* lint pass and sends no PublishDiagnostics notification.
FailedReadSkipsDocument ==
    /\ [][\A h \in 1 .. MaxHandlers :
            ( /\ handlers[h].pc = "read_file"
              /\ handlers'[h].pc # "read_file"
              /\ handlers'[h].doc = None ) =>
                /\ files' = files
                /\ ident_dicts' = ident_dicts]_vars
    /\ [][\A h \in 1 .. MaxHandlers :
            ReadFailed(h) =>
                /\ ~(handlers[h].pc = "lint" /\ handlers'[h].pc # "lint")
                /\ ~(handlers[h].pc = "send" /\ handlers'[h].pc = "done")
                /\ (handlers'[h] # handlers[h] =>
                        /\ files' = files
                        /\ ident_dicts' = ident_dicts
                        /\ published' = published)]_vars

\* The handler is inside generate_diagnostics or generate_code_actions with
\* a Document: between files.get(url) and the return of the lint pass.
InLintPass(h) == handlers[h].pc \in {"linter_lock_ident_dicts", "lint"}

\* C14: a handler inside a lint pass holds the files mutex, and so does a
\* handler about to insert a Document; no step replaces an entry of files
\* while a lint pass is running; the pass returns the Lints of the Document
\* that files held for the url when the pass took the mutex.
LintPassesAreSerialized ==
    /\ [](\A h \in 1 .. MaxHandlers :
            /\ InLintPass(h) => files_lock = h
            /\ handlers[h].pc = "update_insert_file" => files_lock = h)
    /\ [][(\E h \in 1 .. MaxHandlers : InLintPass(h)) => files' = files]_vars
    /\ [][\A h \in 1 .. MaxHandlers :
            ( /\ handlers[h].pc = "lint_lock_files"
              /\ handlers'[h].pc = "linter_lock_ident_dicts" ) =>
                /\ files_lock = 0
                /\ files_lock' = h]_vars
    /\ [][\A h \in 1 .. MaxHandlers :
            (InLintPass(h) /\ ~InLintPass(h)') =>
                /\ handlers'[h].diagnostics.of = files[handlers[h].url]
                /\ files_lock' = 0]_vars

C14_Witness ==
    \E h, g \in 1 .. MaxHandlers :
        /\ handlers[h].pc = "lint"
        /\ files_lock = h
        /\ handlers[g].pc = "update_lock_files"
        /\ handlers[g].url = handlers[h].url
        /\ handlers[g].doc # files[handlers[h].url]

\* The characters of the word a Lint of the Document doc was raised for.
WordOfLintIn(doc, lint) ==
    LET p == CHOOSE q \in DOMAIN doc.tokens :
                 doc.tokens[q].span.end = lint.span.end
    IN  SubSeq(doc.content, doc.tokens[p].span.start + 1,
               doc.tokens[p].span.end)

\* What the suggestion engine finds for w in dict: the first list that is
\* not empty at max_distance 2, 3, 4.
FoundIn(dict, w) ==
    LET at(d) == SuggestCorrectSpelling(w, MaxResults, d, dict)
    IN  IF at(2) # <<>> THEN at(2) ELSE IF at(3) # <<>> THEN at(3) ELSE at(4)

\* The suggestions a linter without cache entries gives for w under dict.
SuggestionsUnder(dict, w) ==
    LET found == FoundIn(dict, w)
    IN  [k \in 1 .. Min2(3, Len(found)) |->
            [ReplaceWith |-> IF IsUppercase(Head(w))
                             THEN CapitalizeFirst(found[k])
                             ELSE found[k]]]

\* The diagnostics that came out of a lint pass on a Document.
ComputedDiagnostics ==
    { d \in { handlers[h].diagnostics : h \in 1 .. MaxHandlers }
              \cup { published[i].diagnostics : i \in DOMAIN published } :
        d # None /\ d.of # None }

\* C15: in every lint pass, whatever updates replaced the identifier
\* dictionary of the url before, the suggestions of every Lint are those
\* computed for its word against the dictionary merged for this pass; no
\* list of an earlier pass or dictionary comes back.
SuggestionsFollowDictionary ==
    \A d \in ComputedDiagnostics :
        \A i \in DOMAIN d.lints :
            d.lints[i].suggestions
                = SuggestionsUnder(d.with, WordOfLintIn(d.of, d.lints[i]))

\* A pass under a dictionary that another update put in place, with two
\* suggestions where the global dictionary alone gives one.
C15_Witness ==
    \E h \in 1 .. MaxHandlers :
        /\ handlers[h].diagnostics \in ComputedDiagnostics
        /\ handlers[h].new_dict # None
        /\ handlers[h].diagnostics.with
              # GlobalDictionary \o handlers[h].new_dict.dict
        /\ \E i \in DOMAIN handlers[h].diagnostics.lints :
              /\ Len(handlers[h].diagnostics.lints[i].suggestions) = 2
              /\ Len(SuggestionsUnder(GlobalDictionary,
                        WordOfLintIn(handlers[h].diagnostics.of,
                                     handlers[h].diagnostics.lints[i]))) = 1

\* The identifiers create_linter has to merge for a Document of the url:
\* those the parser extracts from this Document, none for a url without a
\* Tree-sitter parser or a Document without identifiers.
IdentifiersOf(url, doc) ==
    IF HasTreeSitterParser(url) /\ WordsOf(doc, 0) # <<>>
    THEN WordsOf(doc, 0)
    ELSE <<>>

\* C19: every lint pass merges, with the global dictionary, the identifier
\* dictionary extracted from the Document it lints, under every
\* interleaving and after every sequence of updates.
LintPassUsesIdentifiersOfItsDocument ==
    \A h \in 1 .. MaxHandlers :
        handlers[h].diagnostics \in ComputedDiagnostics =>
            handlers[h].diagnostics.with
                = GlobalDictionary
                    \o IdentifiersOf(handlers[h].url, handlers[h].diagnostics.of)

\* C18: the mutexes nest in one order only: a handler that waits for the
\* files mutex holds no mutex, a handler that waits for the ident_dicts
\* mutex inside a lint pass holds files, inside update_document nothing;
\* and every handler whose request has arrived completes.  A handler never
\* leaves "done" and never returns to "idle", so that every handler
\* completes exactly when, from some point on, every handler is idle (its
\* request never came) or done.
AdapterIsDeadlockFree ==
    /\ [](\A h \in 1 .. MaxHandlers :
            /\ handlers[h].pc \in {"update_lock_files", "lint_lock_files"} =>
                  (files_lock # h /\ ident_dicts_lock # h)
            /\ handlers[h].pc = "update_lock_ident_dicts" =>
                  (files_lock # h /\ ident_dicts_lock # h)
            /\ handlers[h].pc = "linter_lock_ident_dicts" =>
                  (files_lock = h /\ ident_dicts_lock # h)
            /\ Finished(h) => (files_lock # h /\ ident_dicts_lock # h))
    /\ <>[](\A h \in 1 .. MaxHandlers : handlers[h].pc \in {"idle", "done"})

\* A handler inside a lint pass, holding files, waits for the ident_dicts
\* mutex that an update_document holds.
C18_Witness ==
    \E h, g \in 1 .. MaxHandlers :
        /\ handlers[h].pc = "linter_lock_ident_dicts"
        /\ files_lock = h
        /\ handlers[g].pc = "update_insert_ident_dict"
        /\ ident_dicts_lock = g

----------------------------------------------------------------------------
(* Properties of the linter with a large dictionary.                       *)

\* C16: every Lint has at most 3 suggestions: the first entries, in order,
\* of the list the cache holds for the word itself (not the fused text),
\* wrapped as ReplaceWith, the first character upper-cased when the word
\* starts with an uppercase character; and the list in the cache is the
\* whole list the suggestion engine found, neither cut nor capitalized.
SuggestionsAreShapedCopies ==
    \A i \in DOMAIN lints :
        LET w == WordOfLint(lints[i])
            found == lints[i].suggestions
        IN  /\ w \in DOMAIN word_cache
            /\ Len(found) <= 3
            /\ Len(found) = Min2(3, Len(word_cache[w]))
            /\ \A k \in DOMAIN found :
                  found[k].ReplaceWith
                      = IF IsUppercase(Head(w))
                        THEN <<ToUppercaseFirst(Head(word_cache[w][k]))>>
                                 \o Tail(word_cache[w][k])
                        ELSE word_cache[w][k]
            /\ word_cache[w] = FoundIn(dictionary, w)

C16_Witness ==
    /\ runs = 2
    /\ \E i \in DOMAIN lints :
          /\ IsUppercase(Head(WordOfLint(lints[i])))
          /\ IsFused(lints[i])
          /\ Len(word_cache[WordOfLint(lints[i])]) = 5
          /\ Len(lints[i].suggestions) = 3
          /\ \E k \in 1 .. 3 :
                lints[i].suggestions[k].ReplaceWith
                    # word_cache[WordOfLint(lints[i])][k]
    /\ \E i \in DOMAIN lints :
          /\ ~IsUppercase(Head(WordOfLint(lints[i])))
          /\ Len(word_cache[WordOfLint(lints[i])]) = 5
          /\ Len(lints[i].suggestions) = 3

\* C20: lint() raises Lints for Word tokens only, one at most for each, in
\* the order of the tokens; the spans of the Lints do not overlap and
\* their starts do not decrease, fused spans included.
LintsFollowTheWords ==
    runs >= 1 =>
        /\ \A p \in Positions :
              /\ Cardinality(LintsFor(p)) <= 1
              /\ document.tokens[p].kind # "Word" => LintsFor(p) = {}
        /\ \A i \in DOMAIN lints : \E p \in Positions : i \in LintsFor(p)
        /\ \A i, j \in DOMAIN lints :
              i < j =>
                  /\ lints[i].span.start <= lints[j].span.start
                  /\ lints[i].span.end <= lints[j].span.start

C20_Witness ==
    /\ runs >= 1
    /\ Len(lints) = 2
    /\ IsFused(lints[2])
    /\ lints[1].span.end = lints[2].span.start
    /\ lints[2].span.end = Len(document.content)

=============================================================================
